---- MODULE Spec2Model ----
(***************************************************************************)
(* A model of the OS21Tx sensor firmware (ATtiny85): the Oregon Scientific *)
(* v2.1 frame encoder and transmitter of OS21Tx.h, the DHT22 wrapper of    *)
(* DHTWrapper.h and the duty cycle of sensor.ino.                          *)
(*                                                                         *)
(* Spec    is the firmware: reset, setup(), loop() for ever.               *)
(* SpecTx  is the OS21Tx class driven through its public interface,        *)
(*         begin(channel, rollingId) and transmit(t, h, lowBattery).       *)
(***************************************************************************)
EXTENDS Integers, Sequences, FiniteSets, TLC

(***************************************************************************)
(* Bounds of the model.                                                    *)
(***************************************************************************)
\* increments of the persisted reset counter followed in one behaviour: no
\* external reset is taken once the counter has been stepped this often
MaxIncrements == 3

(***************************************************************************)
(* Machine arithmetic: uint8_t and bit operations.                         *)
(***************************************************************************)
Pow2(n) == 2 ^ n

\* the C operators / and % truncate towards zero (b > 0; \div rounds down)
CDiv(a, b) == IF a >= 0 \/ a % b = 0 THEN a \div b ELSE (a \div b) + 1
CRem(a, b) == a - b * CDiv(a, b)

\* bit n of x
Bit(x, n) == (x \div Pow2(n)) % 2

\* &, | and ^ on operands of at most 16 bits (uint8_t promoted to int, uint16_t)
And(a, b) ==
    LET B(n) == IF Bit(a, n) = 1 /\ Bit(b, n) = 1 THEN Pow2(n) ELSE 0
    IN  B(0) + B(1) + B(2) + B(3) + B(4) + B(5) + B(6) + B(7)
        + (IF a < 256 \/ b < 256 THEN 0
           ELSE B(8) + B(9) + B(10) + B(11) + B(12) + B(13) + B(14)
                + B(15))

Or(a, b) ==
    LET B(n) == IF Bit(a, n) = 1 \/ Bit(b, n) = 1 THEN Pow2(n) ELSE 0
    IN  B(0) + B(1) + B(2) + B(3) + B(4) + B(5) + B(6) + B(7)
        + (IF a < 256 /\ b < 256 THEN 0
           ELSE B(8) + B(9) + B(10) + B(11) + B(12) + B(13) + B(14)
                + B(15))

Xor(a, b) ==
    LET B(n) == IF Bit(a, n) # Bit(b, n) THEN Pow2(n) ELSE 0
    IN  B(0) + B(1) + B(2) + B(3) + B(4) + B(5) + B(6) + B(7)
        + (IF a < 256 /\ b < 256 THEN 0
           ELSE B(8) + B(9) + B(10) + B(11) + B(12) + B(13) + B(14)
                + B(15))

Shl(a, n) == a * Pow2(n)
Shr(a, n) == a \div Pow2(n)
U8(x)     == x % 256

(***************************************************************************)
(* uint32_t resetCount, kept as two 16-bit halves (the value is            *)
(* hi * 65536 + lo) so that 0xFFFFFFFF and its wrap-around are exact.      *)
(***************************************************************************)
U32(h, l)  == [hi |-> h, lo |-> l]
U32Inc(c)  == IF c.lo = 65535 THEN U32((c.hi + 1) % 65536, 0)
              ELSE U32(c.hi, c.lo + 1)
\* variant: the remainder of the low 16 bits only
U32Mod3_LowHalf(c) == c.lo % 3

\* c % 3, using 65536 % 3 = 1
U32Mod3(c) == ((c.hi % 3) + (c.lo % 3)) % 3
\* the same 32 bits read as a (signed) long
U32AsLong(c) == IF c.hi >= 32768 THEN (c.hi - 65536) * 65536 + c.lo
                ELSE c.hi * 65536 + c.lo

(***************************************************************************)
(* float (IEEE 754 binary32; double is the same type on AVR).  A value is  *)
(* (-1)^sign * mant * 2^exp with mant = 0 or 2^23 <= mant < 2^24.          *)
(***************************************************************************)
FZero(s) == [sign |-> s, mant |-> 0, exp |-> 0]

\* m * 2^e (m >= 0, below 2^31) rounded to 24 bits, to nearest, ties to even
RECURSIVE FNorm(_, _, _)
FNorm(s, m, e) ==
    IF m = 0 THEN FZero(s)
    ELSE IF m < 8388608 THEN FNorm(s, 2 * m, e - 1)
    ELSE IF m < 16777216 THEN [sign |-> s, mant |-> m, exp |-> e]
    ELSE LET k == IF m < 33554432 THEN 1
                  ELSE IF m < 67108864 THEN 2
                  ELSE IF m < 134217728 THEN 3
                  ELSE IF m < 268435456 THEN 4
                  ELSE IF m < 536870912 THEN 5
                  ELSE IF m < 1073741824 THEN 6 ELSE 7
             d == Pow2(k)
             q == m \div d
             r == m % d
             up == (2 * r > d) \/ (2 * r = d /\ q % 2 = 1)
         IN  FNorm(s, IF up THEN q + 1 ELSE q, e + k)

\* the exponent E with 2^E <= n/10 < 2^(E+1), for n >= 1
RECURSIVE TenthsExp(_, _)
TenthsExp(n, e) ==
    IF e >= 0
    THEN IF n >= 20 * Pow2(e) THEN TenthsExp(n, e + 1)
         ELSE IF n < 10 * Pow2(e) THEN TenthsExp(n, e - 1)
         ELSE e
    ELSE IF n * Pow2(-e) >= 20 THEN TenthsExp(n, e + 1)
         ELSE IF n * Pow2(-e) < 10 THEN TenthsExp(n, e - 1)
         ELSE e

\* the float nearest to the decimal n/10 (a literal such as 22.7, n = 227)
FTenths(n) ==
    LET a == IF n < 0 THEN -n ELSE n
        s == IF n < 0 THEN 1 ELSE 0
    IN  IF a = 0 THEN FZero(0)
        ELSE LET e   == TenthsExp(a, 0)
                 num == a * Pow2(23 - e)
                 q   == num \div 10
                 r   == num % 10
                 up  == (r > 5) \/ (r = 5 /\ q % 2 = 1)
             IN  FNorm(s, IF up THEN q + 1 ELSE q, e - 23)

\* float == and <
FEq(a, b) == (a.mant = 0 /\ b.mant = 0) \/ a = b
FLtZero(a) == a.sign = 1 /\ a.mant # 0

\* f * k for an int k (converted to float exactly), |k| <= 10
FMulInt(f, k) ==
    LET ak == IF k < 0 THEN -k ELSE k
        s  == IF k < 0 THEN 1 - f.sign ELSE f.sign
    IN  FNorm(s, f.mant * ak, f.exp)

\* f + 0.5 for f >= 0 (0.5 = 2^-1), exact sum then rounded
FAddHalf(f) ==
    IF f.mant = 0 THEN FNorm(0, 1, -1)
    ELSE IF f.exp <= -1 THEN FNorm(0, f.mant + Pow2(-1 - f.exp), f.exp)
    ELSE IF f.exp = 0 THEN FNorm(0, 2 * f.mant + 1, -1)
    ELSE f

\* (int) f: truncation towards zero
FToInt(f) ==
    LET a == IF f.exp >= 0 THEN f.mant * Pow2(f.exp)
             ELSE IF f.exp <= -24 THEN 0
             ELSE f.mant \div Pow2(-f.exp)
    IN  IF f.sign = 1 THEN -a ELSE a

(***************************************************************************)
(* OS21Tx.h: constants and the frame.                                      *)
(***************************************************************************)
SUM_MASK == 1048544   \* 0xfffe0
CRC_MASK == 1045472   \* 0xff3e0
CRC_IV   == 66        \* 0x42
CRC_POLY == 7
DATA_LEN == 12

LOW  == 0
HIGH == 1

\* uint8_t data[DATA_LEN], as initialised in the class
InitData ==
    [i \in 0..(DATA_LEN - 1) |->
        CASE i = 0 -> 255
          [] i = 1 -> 255
          [] i = 2 -> 26
          [] i = 3 -> 45
          [] i = 6 -> 8
          [] i = 9 -> 128
          [] OTHER -> 0]

\* data[i] &= keep; data[i] |= val;
RMW(d, i, keep, val) == [d EXCEPT ![i] = Or(And(d[i], keep), val)]

setRollingId(d, rollingId) == RMW(d, 5, 0, And(rollingId, 255))

\* variant: setChannel() that shifts by channel instead of channel - 1
setChannel_ShiftByChannel(d, channel) ==
    LET channelCode == U8(Shl(1, channel))
    IN  RMW(d, 4, 15, And(Shl(channelCode, 4), 240))

setChannel(d, channel) ==
    LET channelCode == U8(Shl(1, channel - 1))
    IN  RMW(d, 4, 15, And(Shl(channelCode, 4), 240))

\* variant: setTemperature() that always scales by 10, keeping the sign in
\* the scaled value
setTemperature_NoMagnitude(d, t) ==
    LET t_sign == IF FLtZero(t) THEN 1 ELSE 0
        scaled == FToInt(FMulInt(t, 10))
        t_deci == U8(CRem(CDiv(scaled, 1), 10))
        t_ones == U8(CRem(CDiv(scaled, 10), 10))
        t_tens == U8(CRem(CDiv(scaled, 100), 10))
        t_huns == U8(CRem(CDiv(scaled, 1000), 10))
        d1 == RMW(d,  6, 15,  And(Shl(t_deci, 4), 240))
        d2 == RMW(d1, 7, 240, And(Shl(t_ones, 0), 15))
        d3 == RMW(d2, 7, 15,  And(Shl(t_tens, 4), 240))
        d4 == RMW(d3, 8, 252, And(Shl(t_huns, 0), 3))
    IN  RMW(d4, 8, 243, And(Shl(t_sign, 3), 12))

setTemperature(d, t) ==
    LET t_sign == IF FLtZero(t) THEN 1 ELSE 0
        scaled == FToInt(FMulInt(t, IF t_sign = 1 THEN -10 ELSE 10))
        t_deci == U8(CRem(CDiv(scaled, 1), 10))
        t_ones == U8(CRem(CDiv(scaled, 10), 10))
        t_tens == U8(CRem(CDiv(scaled, 100), 10))
        t_huns == U8(CRem(CDiv(scaled, 1000), 10))
        d1 == RMW(d,  6, 15,  And(Shl(t_deci, 4), 240))
        d2 == RMW(d1, 7, 240, And(Shl(t_ones, 0), 15))
        d3 == RMW(d2, 7, 15,  And(Shl(t_tens, 4), 240))
        d4 == RMW(d3, 8, 252, And(Shl(t_huns, 0), 3))
    IN  RMW(d4, 8, 243, And(Shl(t_sign, 3), 12))

setHumidity(d, h) ==
    LET h5     == FAddHalf(h)
        scaled == FToInt(FMulInt(h5, 10))
        h_ones == U8(CRem(CDiv(scaled, 10), 10))
        h_tens == U8(CRem(CDiv(scaled, 100), 10))
        d1 == RMW(d, 8, 15, And(Shl(h_ones, 4), 240))
    IN  RMW(d1, 9, 240, And(Shl(h_tens, 0), 15))

\* variant: setLowBattery() with the mask 0xf0, which clears bit 3 as well
setLowBattery_WideMask(d, b) == RMW(d, 6, 240, IF b THEN 4 ELSE 0)

setLowBattery(d, b) == RMW(d, 6, 248, IF b THEN 4 ELSE 0)

\* variant: the high nibble of a byte taken before the low one
Nibble_HighFirst(d, i) == And(Shr(d[i \div 2], (1 - (i % 2)) * 4), 15)

\* nibble i of the buffer: (data[i / 2] >> ((i % 2) * 4)) & 0xf
Nibble(d, i) == And(Shr(d[i \div 2], (i % 2) * 4), 15)

\* (mask >> i) & 0x1 for a 64-bit mask below 2^31
MaskBit(mask, i) == IF i >= 31 THEN 0 ELSE (mask \div Pow2(i)) % 2

UInt16 == 0..65535

\* no bit of the mask is set among the bits 0 .. n-1: the iterations
\* i = 0 .. n-1 of a masked loop all take the continue
NoneBelow(mask, n) == n = 0 \/ (n < 31 /\ mask % Pow2(n) = 0)

\* the least n such that no bit of the mask is set from bit n on: the
\* iterations i = n .. 63 of a masked loop all take the continue
RECURSIVE MaskTop(_, _)
MaskTop(mask, n) == IF mask = 0 THEN n ELSE MaskTop(mask \div 2, n + 1)

\* S[n] is the uint16_t s after the iterations i = 0 .. n-1 of the loop
checksumSimple(d, mask) ==
    LET S[n \in 0..64] ==
            IF NoneBelow(mask, n) THEN 0
            ELSE LET s == S[n - 1]
                     i == n - 1
                 IN  IF s \in UInt16 /\ MaskBit(mask, i) = 1
                     THEN LET s1 == s + Nibble(d, i)
                              s2 == s1 + And(Shr(s1, 8), 1)
                          IN  And(s2, 255)
                     ELSE s
    IN  U8(S[MaskTop(mask, 0)])

\* one step of the CRC register (uint16_t s):
\*   s <<= 1; s |= bit; if (s & 0x100) s ^= CRC_POLY;
\* (bit 0 of s << 1 is clear, so that | bit adds it)
CrcShift(s, bit) ==
    LET s1 == ((2 * s) % 65536) + bit
    IN  IF Bit(s1, 8) = 1 THEN Xor(s1, CRC_POLY) ELSE s1

\* the inner loop over the bits j = 3 .. 0 of one nibble
CrcNibble(s, nibble) ==
    LET s3 == CrcShift(s,  Bit(nibble, 3))
        s2 == CrcShift(s3, Bit(nibble, 2))
        s1 == CrcShift(s2, Bit(nibble, 1))
    IN  CrcShift(s1, Bit(nibble, 0))

\* S[n] is the uint16_t s after the iterations i = 0 .. n-1 of the first
\* loop, F[n] is s after n iterations of the second (shifts of a zero bit)
checksumCRC(d, mask, iv) ==
    LET S[n \in 0..64] ==
            IF NoneBelow(mask, n) THEN iv
            ELSE LET s == S[n - 1]
                     i == n - 1
                 IN  IF s \in UInt16 /\ MaskBit(mask, i) = 1
                     THEN CrcNibble(s, Nibble(d, i))
                     ELSE s
        F[n \in 0..8] ==
            IF n = 0 THEN S[MaskTop(mask, 0)]
            ELSE LET s == F[n - 1]
                 IN  IF s \in UInt16 THEN CrcShift(s, 0) ELSE s
    IN  U8(F[8])

\* variant: setChecksum() summing over the nibbles of CRC_MASK
setChecksum_CrcMask(d) == RMW(d, 10, 0, And(checksumSimple(d, CRC_MASK), 255))

setChecksum(d) == RMW(d, 10, 0, And(checksumSimple(d, SUM_MASK), 255))

setCRC(d) == RMW(d, 11, 0, And(checksumCRC(d, CRC_MASK, CRC_IV), 255))

\* writeSyncBit levels of sendZero() and sendOne()
sendZero == <<LOW, HIGH>>
sendOne  == <<HIGH, LOW>>

\* variant: sendBit() that sends the bit first and its inverse second
sendBit_BitFirst(val) ==
    IF val THEN sendOne \o sendZero ELSE sendZero \o sendOne

\* the levels sendBit(val) writes, in order
sendBit(val) == IF val THEN sendZero \o sendOne ELSE sendOne \o sendZero

\* variant: the bits of a byte taken most significant first
FrameBit_MsbFirst(d, i) == Bit(d[i \div 8], 7 - (i % 8)) = 1

\* the argument of sendBit in iteration i of sendData
FrameBit(d, i) == And(Shr(d[i \div 8], i % 8), 1) = 1

(***************************************************************************)
(* DHTWrapper.h                                                            *)
(***************************************************************************)
\* variant: irrationalReading() without the pair (50.0, 0.0)
irrationalReading_TwoPairs(tt, hh) ==
    \/ FEq(tt, FTenths(0))    /\ FEq(hh, FTenths(0))
    \/ FEq(tt, FTenths(1500)) /\ FEq(hh, FTenths(1000))

irrationalReading(tt, hh) ==
    \/ FEq(tt, FTenths(0))    /\ FEq(hh, FTenths(0))
    \/ FEq(tt, FTenths(1500)) /\ FEq(hh, FTenths(1000))
    \/ FEq(tt, FTenths(500))  /\ FEq(hh, FTenths(0))

(***************************************************************************)
(* sensor.ino: constants, and the library calls of setup()                 *)
(***************************************************************************)
LOW_BATTERY == 2000

\* getVcc() for an ADC result: 1125300L / result
VccOf(result) == CDiv(1125300, result)

\* randomSeed(seed); random(256) right after a reset.  randomSeed leaves the
\* generator alone for seed 0 (its state is then the initial 1); random() is
\* avr-libc's x = 16807 * x mod (2^31 - 1) by Schrage's method.
RandomByte(seed) ==
    LET x0 == IF seed = U32(0, 0) THEN 1 ELSE U32AsLong(seed)
        x  == IF x0 = 0 THEN 123459876 ELSE x0
        hi == CDiv(x, 127773)
        lo == CRem(x, 127773)
        x1 == 16807 * lo - 2836 * hi
        x2 == IF x1 < 0 THEN x1 + 2147483647 ELSE x1
    IN  x2 % 256

(***************************************************************************)
(* Inputs of the model.                                                    *)
(***************************************************************************)
\* (temperature, humidity) in tenths, as the sensor can report them: the three
\* pairs irrationalReading knows, and readings that share a half with them
Samples ==
    { <<0, 0>>, <<1500, 1000>>, <<500, 0>>,
      <<227, 300>>, <<-53, 996>>, <<0, 450>> }

\* ADC results of getVcc: 3.0 V and just below 2.0 V
AdcResults == { 375, 563 }

\* the reset counter found in the EEPROM at the first power-on: erased
\* storage, 0xFFFFFFFF (the external resets of a behaviour then step it on
\* through the wrap-around to 0, 1, 2)
InitCounters == { U32(65535, 65535) }

\* Timer0 as the core's init() leaves it before setup() runs
BootTimers ==
    { [TCCR0A |-> 3, TCCR0B |-> 3, OCR0A |-> 0, TIMSK |-> 2],
      [TCCR0A |-> 0, TCCR0B |-> 2, OCR0A |-> 128, TIMSK |-> 18] }

\* arguments of begin() and transmit() in SpecTx
ApiRollingIds == { 187, 0 }
ApiSamples    == { <<227, 300>>, <<-53, 996>> }

(***************************************************************************)
(* State.                                                                  *)
(***************************************************************************)
VARIABLES
    pc,          \* where the program is
    caller,      \* "loop" (firmware) or "api" (SpecTx): who called begin/transmit
    hung,        \* the program makes no progress any more
    MCUSR,       \* reset flags set by the hardware, a subset of ResetFlags
    eeprom,      \* the uint32_t at RESET_COUNT_ADDR
    savedMCUSR,  \* setup's _MCUSR
    resetCount,  \* setup's resetCount
    channel,     \* argument of begin
    rollingId,   \* argument of begin
    data,        \* OS21Tx::data
    TCCR0A, TCCR0B, OCR0A, TIMSK,
    old_TCCR0A, old_TCCR0B, old_OCR0A, old_TIMSK,
    sleepMode,   \* SM bits of MCUCR: "idle" or "pwr_down"
    sleepEnable, \* SE bit of MCUCR
    WDTCR,       \* [wdie, wde, wdp]
    txPin,       \* level of TX_PIN
    xoPin,       \* level of T0_XO_POWER_PIN
    dhtPin,      \* level of DHT_POWER_PIN
    t, h,        \* the sample (floats)
    rawT, rawH,  \* the sample as decimals, in tenths (history)
    lowBattery,  \* third argument of transmit
    rep,         \* which of the two sendData() of transmit runs (1 or 2)
    i,           \* loop variable of sendData
    sub,         \* number of writeSyncBit calls done within sendBit (0..3)
    nsleep,      \* sleep_cpu() calls done in the long sleep (0..5)
    \* history, not program state
    bootTimer,   \* Timer0 configuration at boot
    events,      \* what the current duty cycle has done, in order
    wave,        \* levels written by the current sendData, in order
    nvWrites,    \* EEPROM writes since the last reset
    increments   \* increments of the persisted counter so far

vars == << pc, caller, hung, MCUSR, eeprom, savedMCUSR, resetCount, channel,
           rollingId, data, TCCR0A, TCCR0B, OCR0A, TIMSK, old_TCCR0A,
           old_TCCR0B, old_OCR0A, old_TIMSK, sleepMode, sleepEnable, WDTCR,
           txPin, xoPin, dhtPin, t, h, rawT, rawH, lowBattery, rep, i, sub,
           nsleep,
           bootTimer, events, wave, nvWrites, increments >>

timerRegs == << TCCR0A, TCCR0B, OCR0A, TIMSK >>
oldRegs   == << old_TCCR0A, old_TCCR0B, old_OCR0A, old_TIMSK >>
sleepRegs == << sleepMode, sleepEnable >>
pins      == << txPin, xoPin, dhtPin >>
sample    == << t, h, rawT, rawH, lowBattery >>
sendVars  == << rep, i, sub >>
bootVars  == << MCUSR, eeprom, savedMCUSR, resetCount, channel, rollingId >>
history   == << bootTimer, nvWrites, increments >>

ResetFlags == { "PORF", "EXTRF", "BORF", "WDRF" }

WdtOff == [wdie |-> FALSE, wde |-> FALSE, wdp |-> 0]

(***************************************************************************)
(* Reset: what the hardware, the C runtime and the core's init() leave     *)
(* when setup() is entered.  Only the EEPROM (and MCUSR, until setup       *)
(* clears it) survive.                                                     *)
(***************************************************************************)
Boot(flags) ==
    /\ pc' = "setup"
    /\ hung' = FALSE
    /\ caller' = "loop"
    /\ MCUSR' = flags
    /\ savedMCUSR' = {}
    /\ resetCount' = U32(0, 0)
    /\ channel' = 0
    /\ rollingId' = 0
    /\ data' = InitData
    /\ TCCR0A' = bootTimer.TCCR0A
    /\ TCCR0B' = bootTimer.TCCR0B
    /\ OCR0A' = bootTimer.OCR0A
    /\ TIMSK' = bootTimer.TIMSK
    /\ old_TCCR0A' = 0
    /\ old_TCCR0B' = 0
    /\ old_OCR0A' = 0
    /\ old_TIMSK' = 0
    /\ sleepMode' = "idle"
    /\ sleepEnable' = FALSE
    \* a watchdog reset leaves the watchdog running (WDRF forces WDE)
    /\ WDTCR' = [wdie |-> FALSE, wde |-> "WDRF" \in flags, wdp |-> 0]
    /\ txPin' = LOW
    /\ xoPin' = LOW
    /\ dhtPin' = LOW
    /\ t' = FZero(0)
    /\ h' = FZero(0)
    /\ rawT' = 0
    /\ rawH' = 0
    /\ lowBattery' = FALSE
    /\ rep' = 0
    /\ i' = 0
    /\ sub' = 0
    /\ nsleep' = 0
    /\ events' = <<>>
    /\ wave' = <<>>
    /\ nvWrites' = 0
    /\ UNCHANGED << eeprom, bootTimer >>

Init ==
    /\ pc = "setup"
    /\ hung = FALSE
    /\ caller = "loop"
    /\ MCUSR = { "PORF" }
    /\ eeprom \in InitCounters
    /\ savedMCUSR = {}
    /\ resetCount = U32(0, 0)
    /\ channel = 0
    /\ rollingId = 0
    /\ data = InitData
    /\ bootTimer \in BootTimers
    /\ TCCR0A = bootTimer.TCCR0A
    /\ TCCR0B = bootTimer.TCCR0B
    /\ OCR0A = bootTimer.OCR0A
    /\ TIMSK = bootTimer.TIMSK
    /\ old_TCCR0A = 0
    /\ old_TCCR0B = 0
    /\ old_OCR0A = 0
    /\ old_TIMSK = 0
    /\ sleepMode = "idle"
    /\ sleepEnable = FALSE
    /\ WDTCR = WdtOff
    /\ txPin = LOW
    /\ xoPin = LOW
    /\ dhtPin = LOW
    /\ t = FZero(0)
    /\ h = FZero(0)
    /\ rawT = 0
    /\ rawH = 0
    /\ lowBattery = FALSE
    /\ rep = 0
    /\ i = 0
    /\ sub = 0
    /\ nsleep = 0
    /\ events = <<>>
    /\ wave = <<>>
    /\ nvWrites = 0
    /\ increments = 0

\* the supply comes back after a power loss: a power-on reset clears the
\* other reset flags
PowerOnReset ==
    /\ Boot({ "PORF" })
    /\ UNCHANGED increments

\* the supply dips below the brown-out level
BrownOutReset ==
    /\ Boot(MCUSR \cup { "BORF" })
    /\ UNCHANGED increments

\* RESET_PIN is pulled low
ExternalReset ==
    /\ increments < MaxIncrements
    /\ Boot(MCUSR \cup { "EXTRF" })
    /\ UNCHANGED increments

\* the watchdog is in reset mode (WDE set, WDIE clear) and the program does
\* not come back: the time-out resets the device
WatchdogReset ==
    /\ hung
    /\ WDTCR.wde /\ ~WDTCR.wdie
    /\ Boot(MCUSR \cup { "WDRF" })
    /\ UNCHANGED increments

\* a watchdog time-out with WDIE set is an interrupt; with WDE set as well
\* the hardware then clears WDIE (the next time-out resets)
WdtAfterInterrupt == IF WDTCR.wde THEN [WDTCR EXCEPT !.wdie = FALSE] ELSE WDTCR

(***************************************************************************)
(* sensor.ino: setup()                                                     *)
(***************************************************************************)
\* lines 58-68
SetupWatchdog ==
    /\ pc = "setup" /\ ~hung
    /\ savedMCUSR' = MCUSR
    /\ MCUSR' = {}
    /\ WDTCR' = WdtOff
    /\ pc' = "setup_counter"
    /\ UNCHANGED << caller, hung, eeprom, resetCount, channel, rollingId, data,
                    timerRegs, oldRegs, sleepRegs, pins, sample, sendVars,
                    nsleep, history, events, wave >>

\* variant: setup() that increments and writes the counter on every boot
SetupCounter_EveryBoot ==
    /\ pc = "setup_counter" /\ ~hung
    /\ resetCount' = U32Inc(eeprom)
    /\ eeprom' = U32Inc(eeprom)
    /\ nvWrites' = nvWrites + 1
    /\ increments' = IF "EXTRF" \in savedMCUSR THEN increments + 1
                     ELSE increments
    /\ savedMCUSR' = {}
    /\ pc' = "setup_begin"
    /\ UNCHANGED << caller, hung, MCUSR, channel, rollingId, data,
                    timerRegs, oldRegs, sleepRegs, WDTCR, pins, sample,
                    sendVars, nsleep, bootTimer, events, wave >>

\* lines 70-75
SetupCounter ==
    /\ pc = "setup_counter" /\ ~hung
    /\ IF "EXTRF" \in savedMCUSR
       THEN /\ resetCount' = U32Inc(eeprom)
            /\ eeprom' = U32Inc(eeprom)
            /\ nvWrites' = nvWrites + 1
            /\ increments' = increments + 1
       ELSE /\ resetCount' = eeprom
            /\ UNCHANGED << eeprom, nvWrites, increments >>
    /\ savedMCUSR' = {}    \* _MCUSR is not read again
    /\ pc' = "setup_begin"
    /\ UNCHANGED << caller, hung, MCUSR, channel, rollingId, data,
                    timerRegs, oldRegs, sleepRegs, WDTCR, pins, sample,
                    sendVars, nsleep, bootTimer, events, wave >>

\* variant: setup() that seeds the generator only after an external reset,
\* so that the rolling ID of other boots is that of the unseeded generator
SetupBegin_SeedsOnExternal ==
    /\ pc = "setup_begin" /\ ~hung
    /\ channel' = U32Mod3(resetCount) + 1
    /\ rollingId' = RandomByte(IF nvWrites = 1 THEN resetCount ELSE U32(0, 0))
    /\ pc' = "begin_rollingId"
    /\ UNCHANGED << caller, hung, MCUSR, eeprom, savedMCUSR, resetCount, data,
                    timerRegs, oldRegs, sleepRegs, WDTCR, pins, sample,
                    sendVars, nsleep, history, events, wave >>

\* lines 77-81, up to the call of tx.begin
SetupBegin ==
    /\ pc = "setup_begin" /\ ~hung
    /\ channel' = U32Mod3(resetCount) + 1
    /\ rollingId' = RandomByte(resetCount)
    /\ pc' = "begin_rollingId"
    /\ UNCHANGED << caller, hung, MCUSR, eeprom, savedMCUSR, resetCount, data,
                    timerRegs, oldRegs, sleepRegs, WDTCR, pins, sample,
                    sendVars, nsleep, history, events, wave >>

(***************************************************************************)
(* OS21Tx.h: begin()                                                       *)
(***************************************************************************)
BeginRollingId ==
    /\ pc = "begin_rollingId" /\ ~hung
    /\ data' = setRollingId(data, rollingId)
    /\ pc' = "begin_channel"
    /\ UNCHANGED << caller, hung, bootVars, timerRegs, oldRegs, sleepRegs,
                    WDTCR, pins, sample, sendVars, nsleep, history, events,
                    wave >>

BeginChannel ==
    /\ pc = "begin_channel" /\ ~hung
    /\ data' = setChannel(data, channel)
    /\ pc' = IF caller = "loop" THEN "loop" ELSE "idle"
    /\ UNCHANGED << caller, hung, bootVars, timerRegs, oldRegs, sleepRegs,
                    WDTCR, pins, sample, sendVars, nsleep, history, events,
                    wave >>

(***************************************************************************)
(* sensor.ino: loop()                                                      *)
(***************************************************************************)
\* variant: loop() arming the 2 s watchdog without WDE (interrupt only)
PowerOn_InterruptOnly ==
    /\ pc = "loop" /\ ~hung
    /\ xoPin' = HIGH
    /\ dhtPin' = HIGH
    /\ sleepMode' = "pwr_down"
    /\ sleepEnable' = TRUE
    /\ WDTCR' = [wdie |-> TRUE, wde |-> FALSE, wdp |-> 7]
    /\ events' = <<>>
    /\ pc' = "warmup_sleep"
    /\ UNCHANGED << caller, hung, bootVars, data, timerRegs, oldRegs, txPin,
                    sample, sendVars, nsleep, history, wave >>

\* lines 85-92: power up the oscillator and the sensor, arm the watchdog
\* (interrupt, then reset mode; 2 s) and enable the power-down sleep
PowerOn ==
    /\ pc = "loop" /\ ~hung
    /\ xoPin' = HIGH
    /\ dhtPin' = HIGH
    /\ sleepMode' = "pwr_down"
    /\ sleepEnable' = TRUE
    /\ WDTCR' = [wdie |-> TRUE, wde |-> TRUE, wdp |-> 7]
    /\ events' = <<>>
    /\ pc' = "warmup_sleep"
    /\ UNCHANGED << caller, hung, bootVars, data, timerRegs, oldRegs, txPin,
                    sample, sendVars, nsleep, history, wave >>

\* lines 93-94: sleep_cpu() until the watchdog interrupt, sleep_disable()
WarmupSleep ==
    /\ pc = "warmup_sleep" /\ ~hung
    /\ sleepEnable => WDTCR.wdie
    /\ WDTCR' = IF sleepEnable THEN WdtAfterInterrupt ELSE WDTCR
    /\ sleepEnable' = FALSE
    /\ pc' = "read"
    /\ UNCHANGED << caller, hung, bootVars, data, timerRegs, oldRegs,
                    sleepMode, pins, sample, sendVars, nsleep, history,
                    events, wave >>

\* line 97: dht.read(t, h)
DhtRead ==
    /\ pc = "read" /\ ~hung
    /\ \E s \in Samples :
          /\ t' = FTenths(s[1])
          /\ h' = FTenths(s[2])
          /\ rawT' = s[1]
          /\ rawH' = s[2]
    /\ pc' = "check"
    /\ UNCHANGED << caller, hung, bootVars, data, timerRegs, oldRegs,
                    sleepRegs, WDTCR, pins, lowBattery, sendVars, nsleep,
                    history, events, wave >>

\* lines 99-101: return from loop() on a known bad reading
CheckReading ==
    /\ pc = "check" /\ ~hung
    /\ pc' = IF irrationalReading(t, h) THEN "loop" ELSE "power_off"
    /\ UNCHANGED << caller, hung, bootVars, data, timerRegs, oldRegs,
                    sleepRegs, WDTCR, pins, sample, sendVars, nsleep,
                    history, events, wave >>

\* variant: powerOff() that drives only the data pin low and leaves the
\* power pin as it is
DhtPowerOff_DataPinOnly ==
    /\ pc = "power_off" /\ ~hung
    /\ dhtPin' = dhtPin
    /\ events' = Append(events, "powerOff")
    /\ pc' = "get_vcc"
    /\ UNCHANGED << caller, hung, bootVars, data, timerRegs, oldRegs,
                    sleepRegs, WDTCR, txPin, xoPin, sample, sendVars, nsleep,
                    history, wave >>

\* line 103: dht.powerOff()
DhtPowerOff ==
    /\ pc = "power_off" /\ ~hung
    /\ dhtPin' = LOW
    /\ events' = Append(events, "powerOff")
    /\ pc' = "get_vcc"
    /\ UNCHANGED << caller, hung, bootVars, data, timerRegs, oldRegs,
                    sleepRegs, WDTCR, txPin, xoPin, sample, sendVars, nsleep,
                    history, wave >>

\* line 106: the argument getVcc() < LOW_BATTERY, then the call of transmit
GetVcc ==
    /\ pc = "get_vcc" /\ ~hung
    /\ \E result \in AdcResults : lowBattery' = (VccOf(result) < LOW_BATTERY)
    /\ events' = Append(events, "getVcc")
    /\ pc' = "set_temperature"
    /\ UNCHANGED << caller, hung, bootVars, data, timerRegs, oldRegs,
                    sleepRegs, WDTCR, pins, t, h, rawT, rawH, sendVars, nsleep,
                    history, wave >>

\* line 111
XoPowerOff ==
    /\ pc = "xo_off" /\ ~hung
    /\ xoPin' = LOW
    /\ events' = Append(events, "xoOff")
    /\ pc' = "arm_long_sleep"
    /\ UNCHANGED << caller, hung, bootVars, data, timerRegs, oldRegs,
                    sleepRegs, WDTCR, txPin, dhtPin, sample, sendVars, nsleep,
                    history, wave >>

\* variant: loop() without the wdt_disable() of line 116, WDE stays set
ArmLongSleep_KeepsWde ==
    /\ pc = "arm_long_sleep" /\ ~hung
    /\ sleepMode' = "pwr_down"
    /\ sleepEnable' = TRUE
    /\ WDTCR' = [wdie |-> TRUE, wde |-> TRUE, wdp |-> 9]
    /\ nsleep' = 0
    /\ pc' = "long_sleep"
    /\ UNCHANGED << caller, hung, bootVars, data, timerRegs, oldRegs, pins,
                    sample, sendVars, history, events, wave >>

\* lines 114-118: power-down sleep, watchdog in interrupt-only mode, 8 s
ArmLongSleep ==
    /\ pc = "arm_long_sleep" /\ ~hung
    /\ sleepMode' = "pwr_down"
    /\ sleepEnable' = TRUE
    /\ WDTCR' = [wdie |-> TRUE, wde |-> FALSE, wdp |-> 9]
    /\ nsleep' = 0
    /\ pc' = "long_sleep"
    /\ UNCHANGED << caller, hung, bootVars, data, timerRegs, oldRegs, pins,
                    sample, sendVars, history, events, wave >>

\* variant: a long sleep of four sleep_cpu() calls
LongSleep_FourSleeps ==
    /\ pc = "long_sleep" /\ ~hung
    /\ sleepEnable => WDTCR.wdie
    /\ WDTCR' = IF sleepEnable THEN WdtAfterInterrupt ELSE WDTCR
    /\ nsleep' = IF nsleep = 3 THEN 0 ELSE nsleep + 1
    /\ events' = IF nsleep = 0 THEN Append(events, "sleep") ELSE events
    /\ IF nsleep = 3
       THEN sleepEnable' = FALSE /\ pc' = "loop"
       ELSE UNCHANGED << sleepEnable, pc >>
    /\ UNCHANGED << caller, hung, bootVars, data, timerRegs, oldRegs,
                    sleepMode, pins, sample, sendVars, history, wave >>

\* lines 119-124: one of the five sleep_cpu(), ended by a watchdog
\* interrupt; sleep_disable() after the fifth
LongSleep ==
    /\ pc = "long_sleep" /\ ~hung
    /\ sleepEnable => WDTCR.wdie
    /\ WDTCR' = IF sleepEnable THEN WdtAfterInterrupt ELSE WDTCR
    /\ nsleep' = IF nsleep = 4 THEN 0 ELSE nsleep + 1
    /\ events' = IF nsleep = 0 THEN Append(events, "sleep") ELSE events
    /\ IF nsleep = 4
       THEN sleepEnable' = FALSE /\ pc' = "loop"
       ELSE UNCHANGED << sleepEnable, pc >>
    /\ UNCHANGED << caller, hung, bootVars, data, timerRegs, oldRegs,
                    sleepMode, pins, sample, sendVars, history, wave >>

(***************************************************************************)
(* OS21Tx.h: transmit()                                                    *)
(***************************************************************************)
\* one setter call of transmit: the frame becomes d, the program moves on
Setter(at, d, name, next) ==
    /\ pc = at /\ ~hung
    /\ data' = d
    /\ events' = Append(events, name)
    /\ pc' = next
    /\ UNCHANGED << caller, hung, bootVars, timerRegs, oldRegs, sleepRegs,
                    WDTCR, pins, sample, sendVars, nsleep, history, wave >>

SetTemperature ==
    Setter("set_temperature", setTemperature(data, t), "setTemperature",
           "set_humidity")

SetHumidity ==
    Setter("set_humidity", setHumidity(data, h), "setHumidity",
           "set_low_battery")

SetLowBattery ==
    Setter("set_low_battery", setLowBattery(data, lowBattery), "setLowBattery",
           "set_checksum")

SetChecksum ==
    Setter("set_checksum", setChecksum(data), "setChecksum", "set_crc")

SetCRC ==
    Setter("set_crc", setCRC(data), "setCRC", "configure_timer")

\* Timer0 as configureTimer sets it: CTC, external clock on T0, compare at 15,
\* compare-match interrupt
TxTimer == [TCCR0A |-> 2, TCCR0B |-> 7, OCR0A |-> 15, TIMSK |-> 16]

\* variant: configureTimer() without set_sleep_mode(SLEEP_MODE_IDLE)
ConfigureTimer_KeepsSleepMode ==
    /\ pc = "configure_timer" /\ ~hung
    /\ old_TCCR0A' = TCCR0A
    /\ old_TCCR0B' = TCCR0B
    /\ old_OCR0A' = OCR0A
    /\ old_TIMSK' = TIMSK
    /\ TCCR0A' = TxTimer.TCCR0A
    /\ TCCR0B' = TxTimer.TCCR0B
    /\ OCR0A' = TxTimer.OCR0A
    /\ TIMSK' = TxTimer.TIMSK
    /\ sleepMode' = sleepMode
    /\ sleepEnable' = TRUE
    /\ rep' = IF rep = 1 THEN 2 ELSE 1
    /\ i' = 0
    /\ sub' = 0
    /\ wave' = <<>>
    /\ events' = Append(events, "sendData")
    /\ pc' = "write_sync_bit"
    /\ UNCHANGED << caller, hung, bootVars, data, WDTCR, pins, sample, nsleep,
                    history >>

\* sendData(), lines 161: configureTimer()
ConfigureTimer ==
    /\ pc = "configure_timer" /\ ~hung
    /\ old_TCCR0A' = TCCR0A
    /\ old_TCCR0B' = TCCR0B
    /\ old_OCR0A' = OCR0A
    /\ old_TIMSK' = TIMSK
    /\ TCCR0A' = TxTimer.TCCR0A
    /\ TCCR0B' = TxTimer.TCCR0B
    /\ OCR0A' = TxTimer.OCR0A
    /\ TIMSK' = TxTimer.TIMSK
    /\ sleepMode' = "idle"
    /\ sleepEnable' = TRUE
    /\ rep' = IF rep = 1 THEN 2 ELSE 1
    /\ i' = 0
    /\ sub' = 0
    /\ wave' = <<>>
    /\ events' = Append(events, "sendData")
    /\ pc' = "write_sync_bit"
    /\ UNCHANGED << caller, hung, bootVars, data, WDTCR, pins, sample, nsleep,
                    history >>

\* variant: sendData() without the writeSyncBit(LOW) of line 166, the last
\* write repeats the level of the pin
NextLevel_NoFinalLow ==
    IF i < DATA_LEN * 8 THEN sendBit(FrameBit(data, i))[sub + 1] ELSE txPin

\* the level of the next writeSyncBit of sendData: within the loop the
\* sub-th level of sendBit, after it the LOW of line 166
NextLevel ==
    IF i < DATA_LEN * 8 THEN sendBit(FrameBit(data, i))[sub + 1] ELSE LOW

\* one writeSyncBit(val): sleep_cpu() until the timer interrupt, then
\* digitalWrite(pin, val)
WriteSyncBit ==
    /\ pc = "write_sync_bit" /\ ~hung
    /\ sleepEnable => sleepMode = "idle"
    /\ txPin' = NextLevel
    /\ wave' = Append(wave, NextLevel)
    /\ IF i = DATA_LEN * 8
       THEN pc' = "restore_timer" /\ UNCHANGED << i, sub >>
       ELSE /\ pc' = pc
            /\ IF sub = 3 THEN i' = i + 1 /\ sub' = 0
               ELSE i' = i /\ sub' = sub + 1
    /\ UNCHANGED << caller, hung, bootVars, data, timerRegs, oldRegs,
                    sleepRegs, WDTCR, xoPin, dhtPin, sample, rep, nsleep,
                    history, events >>

\* variant: restoreTimer() that does not write OCR0A back
RestoreTimer_KeepsOCR0A ==
    /\ pc = "restore_timer" /\ ~hung
    /\ sleepEnable' = FALSE
    /\ TCCR0A' = old_TCCR0A
    /\ TCCR0B' = old_TCCR0B
    /\ OCR0A' = OCR0A
    /\ TIMSK' = old_TIMSK
    /\ pc' = IF rep = 1 THEN "delay"
             ELSE IF caller = "loop" THEN "xo_off" ELSE "idle"
    /\ UNCHANGED << caller, hung, bootVars, data, oldRegs, sleepMode, WDTCR,
                    pins, sample, sendVars, nsleep, history, events, wave >>

\* sendData(), line 168: restoreTimer(), and the return from sendData
RestoreTimer ==
    /\ pc = "restore_timer" /\ ~hung
    /\ sleepEnable' = FALSE
    /\ TCCR0A' = old_TCCR0A
    /\ TCCR0B' = old_TCCR0B
    /\ OCR0A' = old_OCR0A
    /\ TIMSK' = old_TIMSK
    /\ pc' = IF rep = 1 THEN "delay"
             ELSE IF caller = "loop" THEN "xo_off" ELSE "idle"
    /\ UNCHANGED << caller, hung, bootVars, data, oldRegs, sleepMode, WDTCR,
                    pins, sample, sendVars, nsleep, history, events, wave >>

\* variant: transmit() that returns after the pause, without the second send
Delay_NoSecondSend ==
    /\ pc = "delay" /\ ~hung
    /\ events' = Append(events, "delay")
    /\ pc' = IF caller = "loop" THEN "xo_off" ELSE "idle"
    /\ UNCHANGED << caller, hung, bootVars, data, timerRegs, oldRegs,
                    sleepRegs, WDTCR, pins, sample, sendVars, nsleep, history,
                    wave >>

\* line 89: delay(55)
Delay ==
    /\ pc = "delay" /\ ~hung
    /\ events' = Append(events, "delay")
    /\ pc' = "configure_timer"
    /\ UNCHANGED << caller, hung, bootVars, data, timerRegs, oldRegs,
                    sleepRegs, WDTCR, pins, sample, sendVars, nsleep, history,
                    wave >>

(***************************************************************************)
(* Failure: the sensor read, the ADC conversion or the transmission never  *)
(* returns (a per-edge sleep is never woken when the timer tick fails).    *)
(***************************************************************************)
HangPoints ==
    { "read", "get_vcc", "set_temperature", "set_humidity", "set_low_battery",
      "set_checksum", "set_crc", "configure_timer", "write_sync_bit",
      "restore_timer", "delay" }

Hang ==
    /\ caller = "loop"
    /\ pc \in HangPoints /\ ~hung
    /\ hung' = TRUE
    /\ UNCHANGED << pc, caller, bootVars, data, timerRegs, oldRegs, sleepRegs,
                    WDTCR, pins, sample, sendVars, nsleep, history, events,
                    wave >>

(***************************************************************************)
(* The OS21Tx class through its public interface.                          *)
(***************************************************************************)
ApiBegin ==
    /\ pc = "idle"
    /\ \E ch \in 1..3, rid \in ApiRollingIds :
          /\ channel' = ch
          /\ rollingId' = rid
    /\ pc' = "begin_rollingId"
    /\ UNCHANGED << caller, hung, MCUSR, eeprom, savedMCUSR, resetCount, data,
                    timerRegs, oldRegs, sleepRegs, WDTCR, pins, sample,
                    sendVars, nsleep, history, events, wave >>

\* transmit() of an object on which begin() has been called
ApiTransmit ==
    /\ pc = "idle"
    /\ channel # 0
    /\ \E s \in ApiSamples, b \in BOOLEAN :
          /\ t' = FTenths(s[1])
          /\ h' = FTenths(s[2])
          /\ rawT' = s[1]
          /\ rawH' = s[2]
          /\ lowBattery' = b
    /\ events' = <<>>
    /\ pc' = "set_temperature"
    /\ UNCHANGED << caller, hung, bootVars, data, timerRegs, oldRegs,
                    sleepRegs, WDTCR, pins, sendVars, nsleep, history, wave >>

InitTx ==
    /\ pc = "idle"
    /\ hung = FALSE
    /\ caller = "api"
    /\ MCUSR = {}
    /\ eeprom = U32(0, 0)
    /\ savedMCUSR = {}
    /\ resetCount = U32(0, 0)
    /\ channel = 0
    /\ rollingId = 0
    /\ data = InitData
    /\ bootTimer \in BootTimers
    /\ TCCR0A = bootTimer.TCCR0A
    /\ TCCR0B = bootTimer.TCCR0B
    /\ OCR0A = bootTimer.OCR0A
    /\ TIMSK = bootTimer.TIMSK
    /\ old_TCCR0A = 0
    /\ old_TCCR0B = 0
    /\ old_OCR0A = 0
    /\ old_TIMSK = 0
    /\ sleepMode = "idle"
    /\ sleepEnable = FALSE
    /\ WDTCR = WdtOff
    /\ txPin = LOW
    /\ xoPin = LOW
    /\ dhtPin = LOW
    /\ t = FZero(0)
    /\ h = FZero(0)
    /\ rawT = 0
    /\ rawH = 0
    /\ lowBattery = FALSE
    /\ rep = 0
    /\ i = 0
    /\ sub = 0
    /\ nsleep = 0
    /\ events = <<>>
    /\ wave = <<>>
    /\ nvWrites = 0
    /\ increments = 0

(***************************************************************************)
(* The two digit setters applied to a reading: transmit() up to line 83.   *)
(***************************************************************************)
\* the readings: temperatures -MaxColdTenths/10 .. MaxTenths/10 in steps of
\* 0.1
\* and humidities 0 .. MaxPercent in steps of 1
MaxColdTenths == 199
MaxTenths == 999
MaxPercent == 99

\* the frame before the call, holding the fields of an earlier reading
\* (-199.9, 99 %): every bit the two setters own has to be rewritten
UsedFrame ==
    setHumidity(setTemperature(InitData, FTenths(-1999)), FTenths(990))

\* the floats of the readings
TempFloat == [n \in (-MaxColdTenths)..MaxTenths |-> FTenths(n)]

HumFloat == [p \in 0..MaxPercent |-> FTenths(10 * p)]

InitDigits ==
    /\ pc = "set_temperature"
    /\ hung = FALSE
    /\ caller = "api"
    /\ MCUSR = {}
    /\ eeprom = U32(0, 0)
    /\ savedMCUSR = {}
    /\ resetCount = U32(0, 0)
    /\ channel = 0
    /\ rollingId = 0
    /\ data = UsedFrame
    /\ bootTimer = [TCCR0A |-> 3, TCCR0B |-> 3, OCR0A |-> 0, TIMSK |-> 2]
    /\ TCCR0A = bootTimer.TCCR0A
    /\ TCCR0B = bootTimer.TCCR0B
    /\ OCR0A = bootTimer.OCR0A
    /\ TIMSK = bootTimer.TIMSK
    /\ old_TCCR0A = 0
    /\ old_TCCR0B = 0
    /\ old_OCR0A = 0
    /\ old_TIMSK = 0
    /\ sleepMode = "idle"
    /\ sleepEnable = FALSE
    /\ WDTCR = WdtOff
    /\ txPin = LOW
    /\ xoPin = LOW
    /\ dhtPin = LOW
    /\ rawT \in (-MaxColdTenths)..MaxTenths
    /\ rawH \in { 10 * p : p \in 0..MaxPercent }
    /\ t = TempFloat[rawT]
    /\ h = HumFloat[rawH \div 10]
    /\ lowBattery = FALSE
    /\ rep = 0
    /\ i = 0
    /\ sub = 0
    /\ nsleep = 0
    /\ events = <<>>
    /\ wave = <<>>
    /\ nvWrites = 0
    /\ increments = 0

(***************************************************************************)
(* Boots: setup() after a reset of any cause, for stored counters over the *)
(* whole uint32_t range.                                                   *)
(***************************************************************************)
\* stored counters: the values around 0, 2^16, 2^31 and 2^32, and two
\* arbitrary ones (0x12345678, 0xDEADBEEF)
BootCounters ==
    { U32(0, 0), U32(0, 1), U32(0, 2), U32(0, 3), U32(0, 65534),
      U32(0, 65535), U32(1, 0), U32(4660, 22136), U32(32767, 65533),
      U32(32767, 65535), U32(32768, 0), U32(57005, 48879),
      U32(65535, 65532), U32(65535, 65535) }

InitBoot ==
    /\ pc = "setup"
    /\ hung = FALSE
    /\ caller = "loop"
    /\ MCUSR \in { { f } : f \in ResetFlags }
    /\ eeprom \in BootCounters
    /\ savedMCUSR = {}
    /\ resetCount = U32(0, 0)
    /\ channel = 0
    /\ rollingId = 0
    /\ data = InitData
    /\ bootTimer = [TCCR0A |-> 3, TCCR0B |-> 3, OCR0A |-> 0, TIMSK |-> 2]
    /\ TCCR0A = bootTimer.TCCR0A
    /\ TCCR0B = bootTimer.TCCR0B
    /\ OCR0A = bootTimer.OCR0A
    /\ TIMSK = bootTimer.TIMSK
    /\ old_TCCR0A = 0
    /\ old_TCCR0B = 0
    /\ old_OCR0A = 0
    /\ old_TIMSK = 0
    /\ sleepMode = "idle"
    /\ sleepEnable = FALSE
    /\ WDTCR = [wdie |-> FALSE, wde |-> "WDRF" \in MCUSR, wdp |-> 0]
    /\ txPin = LOW
    /\ xoPin = LOW
    /\ dhtPin = LOW
    /\ t = FZero(0)
    /\ h = FZero(0)
    /\ rawT = 0
    /\ rawH = 0
    /\ lowBattery = FALSE
    /\ rep = 0
    /\ i = 0
    /\ sub = 0
    /\ nsleep = 0
    /\ events = <<>>
    /\ wave = <<>>
    /\ nvWrites = 0
    /\ increments = 0

(***************************************************************************)
(* Specifications.                                                         *)
(***************************************************************************)
Next ==
    \/ PowerOnReset
    \/ BrownOutReset
    \/ ExternalReset
    \/ WatchdogReset
    \/ SetupWatchdog
    \/ SetupCounter
    \/ SetupBegin
    \/ BeginRollingId
    \/ BeginChannel
    \/ PowerOn
    \/ WarmupSleep
    \/ DhtRead
    \/ CheckReading
    \/ DhtPowerOff
    \/ GetVcc
    \/ SetTemperature
    \/ SetHumidity
    \/ SetLowBattery
    \/ SetChecksum
    \/ SetCRC
    \/ ConfigureTimer
    \/ WriteSyncBit
    \/ RestoreTimer
    \/ Delay
    \/ XoPowerOff
    \/ ArmLongSleep
    \/ LongSleep
    \/ Hang

Spec == Init /\ [][Next]_vars

\* the watchdog runs from its own oscillator: armed in reset mode, it fires
LiveSpec == Spec /\ WF_vars(WatchdogReset)

NextTx ==
    \/ ApiBegin
    \/ ApiTransmit
    \/ BeginRollingId
    \/ BeginChannel
    \/ SetTemperature
    \/ SetHumidity
    \/ SetLowBattery
    \/ SetChecksum
    \/ SetCRC
    \/ ConfigureTimer
    \/ WriteSyncBit
    \/ RestoreTimer
    \/ Delay

SpecTx == InitTx /\ [][NextTx]_vars

(***************************************************************************)
(* Properties.                                                             *)
(***************************************************************************)
\* a step that is a reset (the program restarts at setup)
ResetStep == pc' = "setup"
\* a step in which the program stops making progress
HangStep == hung' /\ ~hung

InSendData == pc \in { "write_sync_bit", "restore_timer" }

TimerNow == [TCCR0A |-> TCCR0A, TCCR0B |-> TCCR0B, OCR0A |-> OCR0A,
             TIMSK |-> TIMSK]

\* C1: outside a sendData run (before the first, in the delay between the two,
\* after the second, in getVcc, in every sleep of the scheduler) the four
\* timer registers hold the boot-time configuration; so each sendData run
\* leaves them as it found them.
C1_TimerBorrow == ~InSendData => TimerNow = bootTimer

\* C1 witness: the second sendData of a transmit has returned, the registers
\* are the boot-time ones again and differ from the ones used for sending
C1_Witness ==
    /\ pc = "xo_off" /\ rep = 2
    /\ TimerNow = bootTimer
    /\ old_OCR0A = bootTimer.OCR0A
    /\ TimerNow # TxTimer

\* the levels of a whole frame, four per logical bit
FourPerBit(d, w) ==
    /\ Len(w) = 4 * (DATA_LEN * 8) + 1
    /\ \A k \in 0..(DATA_LEN * 8 - 1) :
          SubSeq(w, 4 * k + 1, 4 * k + 4) =
             IF FrameBit(d, k) THEN << LOW, HIGH, HIGH, LOW >>
             ELSE << HIGH, LOW, LOW, HIGH >>

\* the levels of a whole frame, two per logical bit
TwoPerBit(d, w) ==
    /\ Len(w) = 2 * (DATA_LEN * 8) + 1
    /\ \A k \in 0..(DATA_LEN * 8 - 1) :
          SubSeq(w, 2 * k + 1, 2 * k + 2) =
             IF FrameBit(d, k) THEN << HIGH, LOW >> ELSE << LOW, HIGH >>

\* C2 as stated: every logical bit is written as two levels, a 1 as
\* (high, low) and a 0 as (low, high).
C2_Original == pc = "restore_timer" => TwoPerBit(data, wave)

\* C2 amended: every logical bit is written as four levels, the inverted bit
\* first and the bit itself second, a 1 as (low, high, high, low) and a 0 as
\* (high, low, low, high): two high and two low pulses per logical bit.
C2_LineCode == pc = "restore_timer" => FourPerBit(data, wave)

\* C2 witness: frame bits 17..20 (byte 0x1a) are 1,0,1,1 and have been sent
C2_Witness ==
    /\ pc = "restore_timer"
    /\ << FrameBit(data, 17), FrameBit(data, 18), FrameBit(data, 19),
          FrameBit(data, 20) >> = << TRUE, FALSE, TRUE, TRUE >>
    /\ SubSeq(wave, 4 * 17 + 1, 4 * 21) =
          << LOW, HIGH, HIGH, LOW,  HIGH, LOW, LOW, HIGH,
             LOW, HIGH, HIGH, LOW,  LOW, HIGH, HIGH, LOW >>

\* a frame written as the bytes of the documentation
FrameOf(bytes) == [j \in 0..(DATA_LEN - 1) |-> bytes[j + 1]]

\* ff ff 1a 2d 20 bb 7c 22 00 83 4a 55
ReferenceFrame ==
    FrameOf(<< 255, 255, 26, 45, 32, 187, 124, 34, 0, 131, 74, 85 >>)

\* ff ff 1a 2d 10 bb 7c 22 00 83 49 f3
Channel1Frame ==
    FrameOf(<< 255, 255, 26, 45, 16, 187, 124, 34, 0, 131, 73, 243 >>)

\* a frame is being sent for transmit(22.7, 30.0, true) after
\* begin(ch, 0xbb)
SendingExample(ch) ==
    /\ InSendData
    /\ channel = ch /\ rollingId = 187
    /\ t = FTenths(227) /\ h = FTenths(300) /\ lowBattery

ListedPairs ==
    { << FTenths(0), FTenths(0) >>, << FTenths(1500), FTenths(1000) >>,
      << FTenths(500), FTenths(0) >> }

\* where loop() is between dht.powerOff() and the end of the long sleep
ReportPcs ==
    { "power_off", "get_vcc", "set_temperature", "set_humidity",
      "set_low_battery", "set_checksum", "set_crc", "configure_timer",
      "write_sync_bit", "restore_timer", "delay", "xo_off", "arm_long_sleep",
      "long_sleep" }

\* C4: the reading is reported (sensor off, voltage, transmit) exactly if it
\* is not one of the three listed pairs; a listed pair sends loop() back to
\* its top with the frame, the radio pin and the cycle's record untouched
\* and without the long sleep, and the next step there is the power-on and
\* the arming of the 2 s warm-up sleep.
C4_Implausible ==
    [][ /\ (pc = "check" /\ ~ResetStep) =>
              IF << t, h >> \in ListedPairs
              THEN /\ pc' = "loop"
                   /\ data' = data /\ txPin' = txPin /\ wave' = wave
                   /\ events' = <<>> /\ nsleep' = 0
              ELSE pc' = "power_off"
        /\ (pc = "power_off" /\ ~ResetStep) => pc' = "get_vcc"
        /\ (pc = "get_vcc" /\ ~ResetStep /\ ~HangStep) =>
              pc' = "set_temperature"
        /\ (pc' \in ReportPcs /\ caller' = "loop") =>
              << t', h' >> \notin ListedPairs
        /\ (pc = "loop" /\ ~ResetStep) =>
              /\ pc' = "warmup_sleep"
              /\ xoPin' = HIGH /\ dhtPin' = HIGH
              /\ WDTCR'.wdie /\ WDTCR'.wdp = 7
      ]_vars

\* C4 witness: a cycle with the reading (150.0, 100.0) has been abandoned
C4_Witness ==
    /\ pc = "loop"
    /\ << t, h >> = << FTenths(1500), FTenths(1000) >>
    /\ events = <<>> /\ xoPin = HIGH

\* C5: the radio pin is LOW whenever no sendData loop is running, and the
\* last level a sendData writes is LOW.
C5_NeverEnergized ==
    /\ pc # "write_sync_bit" => txPin = LOW
    /\ pc = "restore_timer" => wave[Len(wave)] = LOW

\* C5 witness: the last frame bit was a 0 (sent as ..., low, high) and the
\* pin is low after the run
C5_Witness ==
    /\ pc = "restore_timer"
    /\ ~FrameBit(data, DATA_LEN * 8 - 1)
    /\ wave[Len(wave) - 1] = HIGH
    /\ txPin = LOW

\* the steps of a reported cycle, in the order of loop() and transmit()
ReportOrder ==
    << "powerOff", "getVcc", "setTemperature", "setHumidity", "setLowBattery",
       "setChecksum", "setCRC", "sendData", "delay", "sendData", "xoOff",
       "sleep" >>

IsPrefix(p, q) == Len(p) <= Len(q) /\ p = SubSeq(q, 1, Len(p))

\* C6: the steps of a reported cycle happen in this order, none skipped and
\* none repeated: sensor off, voltage, temperature, humidity, battery flag,
\* checksum, CRC, first send, pause, second send, crystal off, long sleep.
C6_ReportOrder ==
    /\ IsPrefix(events, ReportOrder)
    /\ pc = "get_vcc" => Len(events) = 1
    /\ pc = "set_temperature" => Len(events) = 2
    /\ pc = "set_crc" => Len(events) = 6
    /\ pc = "configure_timer" => Len(events) \in { 7, 9 }
    /\ pc = "delay" => Len(events) = 8 /\ rep = 1
    /\ pc = "xo_off" => Len(events) = 10 /\ rep = 2
    /\ pc = "arm_long_sleep" => Len(events) = 11 /\ xoPin = LOW /\ dhtPin = LOW
    /\ (pc = "long_sleep" /\ nsleep > 0) => events = ReportOrder

\* C6 witness: a reported cycle is in its long sleep with all twelve steps
C6_Witness == pc = "long_sleep" /\ nsleep = 1 /\ events = ReportOrder

\* C7: setup writes the persisted counter, once and with the value one
\* greater (modulo 2^32), exactly when the saved reset cause has the
\* external-reset flag; no other step writes it.
C7_CounterWrite ==
    [][ /\ (pc = "setup_counter" /\ pc' = "setup_begin") =>
              IF "EXTRF" \in savedMCUSR
              THEN /\ U32AsLong(eeprom') = U32AsLong(eeprom) + 1
                   /\ nvWrites' = 1
              ELSE eeprom' = eeprom /\ nvWrites' = nvWrites
        /\ ~(pc = "setup_counter" /\ pc' = "setup_begin") =>
              eeprom' = eeprom /\ nvWrites' \in { 0, nvWrites }
        /\ nvWrites' <= 1
      ]_vars

\* C7 witness: a boot after an external reset has written the counter, which
\* wrapped from 0xFFFFFFFF to 0, and setup has completed
C7_Witness ==
    /\ pc = "loop" /\ nvWrites = 1
    /\ eeprom = U32(0, 0) /\ increments = 1

\* where the program executes a sleep instruction
AtSleep == pc \in { "warmup_sleep", "write_sync_bit", "long_sleep" }

\* C8 as stated: at every sleep instruction the watchdog is armed so that its
\* expiry resets the device.
C8_Original == AtSleep => WDTCR.wde

\* C8 amended: at the warm-up sleep the watchdog is in interrupt-then-reset
\* mode with the 2 s period and at every per-edge sleep of sendData it is in
\* reset mode; at each of the sleeps of the long sleep it is in
\* interrupt-only mode with the 8 s period, so its expiry wakes the core and
\* never resets the device.
C8_WatchdogModes ==
    /\ pc = "warmup_sleep" => WDTCR = [wdie |-> TRUE, wde |-> TRUE, wdp |-> 7]
    /\ pc = "write_sync_bit" =>
          WDTCR = [wdie |-> FALSE, wde |-> TRUE, wdp |-> 7]
    /\ pc = "long_sleep" => WDTCR = [wdie |-> TRUE, wde |-> FALSE, wdp |-> 9]

\* C8 witness: the third of the five sleeps of the long sleep, reset disabled
C8_Witness == pc = "long_sleep" /\ nsleep = 2 /\ ~WDTCR.wde /\ WDTCR.wdie

\* C9: whenever the program stops between the first wake-up and the arming
\* of the long sleep, the watchdog is in reset mode, and the device is then
\* reset and starts setup again.
C9_RestartLiveness ==
    /\ [](hung => (WDTCR.wde /\ ~WDTCR.wdie))
    /\ hung ~> (pc = "setup" /\ ~hung)

\* C9 witness: the program is stuck in a per-edge sleep of the second send
C9_Witness ==
    /\ hung /\ pc = "write_sync_bit" /\ rep = 2
    /\ WDTCR.wde /\ ~WDTCR.wdie

\* the bits no setter owns: bytes 0-3, the low nibble of byte 4, bit 3 of
\* byte 6 and the high nibble of byte 9
ConstantBits(d) ==
    /\ << d[0], d[1], d[2], d[3] >> = << 255, 255, 26, 45 >>
    /\ d[4] % 16 = 0
    /\ (d[6] \div 8) % 2 = 1
    /\ d[9] \div 16 = 8

\* d and e are equal outside byte j, where they agree on the bits of keep
OnlyField(d, e, j, keep) ==
    /\ \A k \in (0..(DATA_LEN - 1)) \ { j } : d[k] = e[k]
    /\ And(d[j], keep) = And(e[j], keep)

\* d and e are equal outside bytes j and j + 1, where they agree on the bits
\* of keep1 and keep2
OnlyFields(d, e, j, keep1, keep2) ==
    /\ \A k \in (0..(DATA_LEN - 1)) \ { j, j + 1 } : d[k] = e[k]
    /\ And(d[j], keep1) = And(e[j], keep1)
    /\ And(d[j + 1], keep2) = And(e[j + 1], keep2)

\* C10: every setter changes only the bits of its own field, so the constant
\* bits keep their initial values through any sequence of begin and transmit
\* calls, and transmit changes neither the rolling ID nor the channel.
C10_SetterFrame ==
    [][ /\ ConstantBits(data) /\ ConstantBits(data')
        /\ pc = "begin_rollingId" => OnlyField(data, data', 5, 0)
        /\ pc = "begin_channel" => OnlyField(data, data', 4, 15)
        /\ pc = "set_temperature" =>
              /\ \A k \in (0..(DATA_LEN - 1)) \ { 6, 7, 8 } :
                    data'[k] = data[k]
              /\ And(data'[6], 15) = And(data[6], 15)
              /\ And(data'[8], 240) = And(data[8], 240)
        /\ pc = "set_humidity" => OnlyFields(data, data', 8, 15, 240)
        /\ pc = "set_low_battery" => OnlyField(data, data', 6, 248)
        /\ pc = "set_checksum" => OnlyField(data, data', 10, 0)
        /\ pc = "set_crc" => OnlyField(data, data', 11, 0)
        /\ pc \notin { "begin_rollingId", "begin_channel", "set_temperature",
                       "set_humidity", "set_low_battery", "set_checksum",
                       "set_crc" } => data' = data
        /\ pc \notin { "begin_rollingId", "begin_channel" } =>
              data'[5] = data[5] /\ data'[4] = data[4]
      ]_vars

\* C10 witness: after begin(3, 0xbb) a transmit with the battery flag has
\* completed; identity and channel are those of begin, bit 3 of byte 6 is set
C10_Witness ==
    /\ pc = "idle" /\ Len(events) = 8
    /\ data[5] = 187 /\ data[4] = 64
    /\ data[6] % 16 = 12

\* bytes 10 and 11 are the digests of the frame as it is
Finalized(d) ==
    /\ d[10] = checksumSimple(d, SUM_MASK)
    /\ d[11] = checksumCRC(d, CRC_MASK, CRC_IV)

\* C11: at the start and at the end of each of the two sends byte 10 is the
\* masked nibble sum and byte 11 the masked CRC-8 of the frame, and no step
\* from the start of the first send to the end of the second changes the
\* frame; so the frame is finalized whenever bits are emitted and both
\* repeats carry the same bits.
C11_FinalizedOnAir ==
    [][ /\ pc \in { "configure_timer", "restore_timer" } => Finalized(data)
        /\ (pc \in { "configure_timer", "write_sync_bit", "restore_timer",
                     "delay" } /\ ~ResetStep) => data' = data
      ]_vars

\* C11 witness: the second send of a reading with the battery flag has
\* emitted its bits and the frame is finalized
C11_Witness ==
    /\ pc = "restore_timer" /\ rep = 2 /\ lowBattery
    /\ Len(wave) = 4 * (DATA_LEN * 8) + 1
    /\ Finalized(data)

NextDigits ==
    \/ SetTemperature
    \/ SetHumidity

SpecDigits == InitDigits /\ [][NextDigits]_vars

\* the decimal digit of weight 10^k of n
Digit(n, k) == (n \div (10 ^ k)) % 10

Abs(n) == IF n < 0 THEN -n ELSE n

\* C12: after setTemperature(t) and setHumidity(h), for every t from -19.9
\* to 99.9 in steps of 0.1 and every h from 0 to 99 in steps of 1, the fields
\* hold the decimal digits of the reading: the sign bit (bit 3 of byte 8) is
\* set exactly if t < 0, the tenths are in the high nibble of byte 6, the ones
\* and tens in byte 7, the hundreds in bits 0-1 of byte 8, the humidity ones
\* in the high nibble of byte 8 and the humidity tens in the low nibble of
\* byte 9; every digit is in 0..9.
C12_DigitRoundTrip ==
    pc = "set_low_battery" =>
        /\ (data[8] \div 8) % 2 = (IF rawT < 0 THEN 1 ELSE 0)
        /\ (data[8] \div 4) % 2 = 0
        /\ data[6] \div 16 = Digit(Abs(rawT), 0)
        /\ data[7] % 16 = Digit(Abs(rawT), 1)
        /\ data[7] \div 16 = Digit(Abs(rawT), 2)
        /\ data[8] % 4 = Digit(Abs(rawT), 3)
        /\ data[8] \div 16 = Digit(rawH \div 10, 0)
        /\ data[9] % 16 = Digit(rawH \div 10, 1)
        /\ \A d \in { data[6] \div 16, data[7] % 16, data[7] \div 16,
                      data[8] % 4, data[8] \div 16, data[9] % 16 } :
              d \in 0..9

\* C12 witness: -19.9 and 99 % have been written over the fields of an
\* earlier reading
C12_Witness ==
    /\ pc = "set_low_battery"
    /\ rawT = -199 /\ rawH = 990
    /\ << data[6], data[7], data[8], data[9] >> = << 152, 25, 152, 137 >>

NextBoot ==
    \/ PowerOnReset
    \/ BrownOutReset
    \/ ExternalReset
    \/ SetupWatchdog
    \/ SetupCounter
    \/ SetupBegin
    \/ BeginRollingId
    \/ BeginChannel

SpecBoot == InitBoot /\ [][NextBoot]_vars

\* c mod 3 of a 32-bit value c = top * 2^31 + low, using 2^31 mod 3 = 2
CounterMod3(c) ==
    LET top == c.hi \div 32768
        low == (c.hi % 32768) * 65536 + c.lo
    IN  ((low % 3) + 2 * top) % 3

\* setup() has chosen the channel (and drawn the rolling ID)
ChannelChosen == pc \in { "begin_rollingId", "begin_channel", "loop" }

\* C13: for every counter value c used at a boot the channel is (c mod 3) + 1,
\* one of 1, 2, 3, and after begin() the high nibble of byte 4 is 1, 2 or 4
\* for channel 1, 2 or 3 with the low nibble as it was (0); counters 0, 1, 2,
\* 3 give channels 1, 2, 3, 1.
C13_ChannelDerivation ==
    /\ ChannelChosen =>
          /\ channel = CounterMod3(resetCount) + 1
          /\ channel \in 1..3
          /\ \A k \in 0..3 :
                resetCount = U32(0, k) => channel = << 1, 2, 3, 1 >>[k + 1]
    /\ (pc = "loop" /\ caller = "loop") =>
          data[4] = << 16, 32, 64 >>[channel]

\* C13 witness: a boot with the counter 0x1234567A (0x12345678 stored, two
\* external resets) has installed channel 1 + 0x1234567A mod 3 = 3
C13_Witness ==
    /\ pc = "loop"
    /\ resetCount = U32(4660, 22138)
    /\ channel = 3 /\ data[4] = 64

\* the logical bit carried by the k-th group of four levels of w: 1, 0, or
\* -1 if the group is no encoding of a bit
Decoded(w, k) ==
    LET g == SubSeq(w, 4 * k + 1, 4 * k + 4)
    IN  IF g = << LOW, HIGH, HIGH, LOW >> THEN 1
        ELSE IF g = << HIGH, LOW, LOW, HIGH >> THEN 0
        ELSE -1

\* C14: a sendData emits the encodings of exactly 96 logical bits, then the
\* final LOW; the k-th bit emitted is bit k mod 8 of byte k div 8 of the
\* frame (bytes 0..11 in order, least significant bit first), and while the
\* loop runs the levels written so far are those of the first i bits and of
\* the part of bit i written.
C14_EmissionOrder ==
    /\ pc = "write_sync_bit" =>
          /\ i \in 0..(DATA_LEN * 8) /\ sub \in 0..3
          /\ Len(wave) = 4 * i + sub
          /\ i > 0 => Decoded(wave, i - 1) = (data[(i - 1) \div 8]
                                               \div (2 ^ ((i - 1) % 8))) % 2
    /\ pc = "restore_timer" =>
          /\ Len(wave) = 4 * 96 + 1
          /\ \A k \in 0..95 :
                Decoded(wave, k) = (data[k \div 8] \div (2 ^ (k % 8))) % 2

\* C14 witness: the first sendData of a reading has emitted byte 2 (0x1a) as
\* bits 16..23 = 0,1,0,1,1,0,0,0 and byte 11 as bits 88..95
C14_Witness ==
    /\ pc = "restore_timer" /\ rep = 1
    /\ [k \in 16..23 |-> Decoded(wave, k)] =
          (16 :> 0 @@ 17 :> 1 @@ 18 :> 0 @@ 19 :> 1 @@ 20 :> 1 @@ 21 :> 0
           @@ 22 :> 0 @@ 23 :> 0)
    /\ data[11] # 0
    /\ \A k \in 88..95 : Decoded(wave, k) = (data[11] \div (2 ^ (k - 88))) % 2

\* bytes 0..9 of d are those of the documented example
ExampleFields(d) == \A j \in 0..9 : d[j] = ReferenceFrame[j]

\* d with bytes 0, 1, 10 and 11 (no nibble of which is in a mask) set to x
OutsideMasks(d, x) == [d EXCEPT ![0] = x, ![1] = x, ![10] = x, ![11] = x]

\* C15: over the bytes ff ff 1a 2d 20 bb 7c 22 00 83 of the documented
\* example the masked nibble sum is 0x4a and the masked CRC-8 (polynomial 7,
\* initial value 0x42, flushed with eight zero bits) is 0x55, as written by
\* setChecksum and setCRC and as computed whatever the bytes outside the
\* masks hold.
C15_ReferenceVector ==
    /\ (pc = "set_crc" /\ ExampleFields(data)) => data[10] = 74
    /\ (pc = "configure_timer" /\ ExampleFields(data)) =>
          /\ data[10] = 74 /\ data[11] = 85
          /\ \A x \in { 0, 165, 255 } :
                /\ checksumSimple(OutsideMasks(data, x), SUM_MASK) = 74
                /\ checksumCRC(OutsideMasks(data, x), CRC_MASK, CRC_IV) = 85

\* C15 witness: the example frame has been finalized
C15_Witness ==
    /\ pc = "configure_timer" /\ rep = 0
    /\ data = ReferenceFrame

\* the watchdog as armed for the long sleep: interrupt only, 8 s (WDP3|WDP0)
LongSleepWatchdog == [wdie |-> TRUE, wde |-> FALSE, wdp |-> 9]

\* C16: in a cycle that transmitted, after the oscillator is switched off
\* the watchdog is armed interrupt-only with the longest period and the core
\* sleeps exactly five times before loop() starts again; every one of these
\* sleeps is ended by a watchdog time-out that leaves the watchdog as it was,
\* and no step out of the long sleep is a watchdog reset.
C16_LongSleep ==
    [][ /\ (pc = "xo_off" /\ caller = "loop" /\ ~ResetStep) =>
              pc' = "arm_long_sleep"
        /\ (pc = "arm_long_sleep" /\ ~ResetStep) =>
              /\ pc' = "long_sleep" /\ nsleep' = 0
              /\ WDTCR' = LongSleepWatchdog
        /\ pc = "long_sleep" =>
              /\ WDTCR = LongSleepWatchdog /\ sleepEnable
              /\ nsleep \in 0..4
              /\ xoPin = LOW
              /\ IF ResetStep THEN "WDRF" \notin MCUSR'
                 ELSE /\ WDTCR' = WDTCR
                      /\ IF nsleep < 4
                         THEN pc' = "long_sleep" /\ nsleep' = nsleep + 1
                         ELSE pc' = "loop" /\ nsleep' = 0
        /\ (pc' = "loop" /\ pc # "loop") =>
              \/ pc = "long_sleep" /\ nsleep = 4 /\ Len(events) = 12
              \/ pc = "check" /\ events = <<>>
              \/ pc = "begin_channel"
      ]_vars

\* C16 witness: the fifth sleep of a cycle that transmitted is over, loop()
\* is at its top again and the watchdog is still in interrupt-only mode
C16_Witness ==
    /\ pc = "loop" /\ events = ReportOrder
    /\ WDTCR = LongSleepWatchdog /\ ~sleepEnable /\ nsleep = 0

\* the 32-bit value before c
Pred32(c) ==
    IF c.lo = 0 THEN U32((c.hi + 65535) % 65536, 65535)
    ELSE U32(c.hi, c.lo - 1)

\* the counter that was stored when this boot began: the one used at this
\* boot, or the one before it if this boot has incremented it
StoredAtBoot == IF nvWrites = 1 THEN Pred32(resetCount) ELSE resetCount

\* the channel that follows ch in the cycle 1, 2, 3, 1
NextChannel(ch) == (ch % 3) + 1

\* C17 as stated: for every stored counter, 0xFFFFFFFF included, a boot by
\* external reset selects the channel that follows the one a boot of another
\* cause selects from the same stored counter, and a boot of another cause
\* selects the channel of the stored counter.
C17_Stepping ==
    ChannelChosen =>
        channel = IF nvWrites = 1
                  THEN NextChannel(CounterMod3(StoredAtBoot) + 1)
                  ELSE CounterMod3(StoredAtBoot) + 1

\* C17, the failing boot: 0xFFFFFFFF was stored, the external reset made it
\* 0, and the channel is 1, the very channel 0xFFFFFFFF gives
C17_WrapKeepsChannel ==
    /\ pc = "loop" /\ nvWrites = 1
    /\ StoredAtBoot = U32(65535, 65535)
    /\ CounterMod3(StoredAtBoot) + 1 = 1
    /\ channel = 1

\* rolling IDs computed outside the model (avr-libc random(), modulo 256)
\* for the seeds 0, 1, 2, 3, 0x12345678 and 0xFFFFFFFF
KnownIds ==
    { << U32(0, 0), 167 >>, << U32(0, 1), 167 >>, << U32(0, 2), 78 >>,
      << U32(0, 3), 245 >>, << U32(4660, 22136), 158 >>,
      << U32(65535, 65535), 88 >> }

\* C18: the rolling ID and the channel a boot installs are functions of the
\* counter used at that boot alone (whatever the reset cause and the boot
\* before), so boots that use the same counter install the same identity;
\* the stored counter, and with it the rolling ID, changes only in a boot
\* caused by an external reset.
C18_IdentityDeterminism ==
    [][ /\ pc' = "loop" =>
              /\ resetCount' = eeprom'
              /\ rollingId' = RandomByte(eeprom')
              /\ channel' = CounterMod3(eeprom') + 1
              /\ data'[5] = rollingId'
              /\ \A kv \in KnownIds : eeprom' = kv[1] => rollingId' = kv[2]
        /\ eeprom' # eeprom =>
              /\ pc = "setup_counter"
              /\ "EXTRF" \in savedMCUSR
      ]_vars

\* C18 witness: a boot caused by the watchdog with the stored counter
\* 0x12345678 has installed rolling ID 158 and channel 1
C18_Witness ==
    /\ pc = "loop" /\ nvWrites = 0
    /\ eeprom = U32(4660, 22136)
    /\ rollingId = 158 /\ channel = 1 /\ data[5] = 158

\* C19: the warm-up sleep and the five sleeps of the long sleep execute with
\* sleep enabled and the mode power-down, every sleep of sendData with sleep
\* enabled and the mode idle, in every cycle; after restoreTimer (in the
\* pause between the sends and after the second send) sleep is disabled and
\* the mode is still idle.
C19_SleepModes ==
    /\ pc \in { "warmup_sleep", "long_sleep" } =>
          sleepEnable /\ sleepMode = "pwr_down"
    /\ pc = "write_sync_bit" => sleepEnable /\ sleepMode = "idle"
    /\ pc \in { "delay", "xo_off" } => ~sleepEnable /\ sleepMode = "idle"

\* C19 witness: the warm-up sleep of a cycle that follows a transmitting
\* cycle (whose last sendData left the mode idle) is in power-down mode
C19_Witness ==
    /\ pc = "warmup_sleep"
    /\ Len(wave) = 4 * (DATA_LEN * 8) + 1
    /\ sleepEnable /\ sleepMode = "pwr_down"

\* C20: while a sendData is in progress the oscillator is powered and the
\* sensor is not; in the long sleep the sensor, the oscillator and the radio
\* pin are all low; a cycle abandoned for an implausible sample leaves the
\* sensor and the oscillator powered, and they are powered in every warm-up
\* sleep.
C20_PowerStates ==
    [][ /\ (InSendData /\ caller = "loop") => xoPin = HIGH /\ dhtPin = LOW
        /\ pc \in { "arm_long_sleep", "long_sleep" } =>
              dhtPin = LOW /\ xoPin = LOW /\ txPin = LOW
        /\ pc = "warmup_sleep" => xoPin = HIGH /\ dhtPin = HIGH
        /\ (pc = "check" /\ pc' = "loop") =>
              /\ xoPin = HIGH /\ dhtPin = HIGH
              /\ xoPin' = HIGH /\ dhtPin' = HIGH
        /\ (pc = "loop" /\ pc' = "warmup_sleep") =>
              xoPin' = HIGH /\ dhtPin' = HIGH
      ]_vars

\* C20 witness: the warm-up sleep that follows a cycle abandoned for the
\* reading (50.0, 0.0), sensor and oscillator powered
C20_Witness ==
    /\ pc = "warmup_sleep"
    /\ rawT = 500 /\ rawH = 0
    /\ xoPin = HIGH /\ dhtPin = HIGH /\ txPin = LOW

====
